---- MODULE Spec2Model ----
(***************************************************************************)
(* ph-eventing: SeqRing<T, N>, a lock-free single-producer single-consumer *)
(* overwrite ring (src/src/seq_ring.rs).                                   *)
(*                                                                         *)
(* One producer thread runs push; one consumer thread runs poll_one,       *)
(* poll_up_to, latest, skip_to_latest, dropped and reset_dropped.  Every   *)
(* access to a shared field (an atomic load or store, the slot write, the  *)
(* slot copy) is one step; the code local to a thread between two shared   *)
(* accesses belongs to the step of the access before it.                   *)
(***************************************************************************)
EXTENDS Integers, Sequences, FiniteSets, TLC

(***************************************************************************)
(* Bounds of the model.                                                    *)
(***************************************************************************)
\* width of a sequence number in bits (u32 in the source, narrowed)
SeqBits == 4
\* capacities N = 1 .. MaxN are explored
MaxN == 2
\* pushes started in one behaviour
MaxPush == 3
\* consumer operations are started while dropped() is below this
MaxDropped == 3
\* the largest max given to the poll_up_to that runs against a producer that
\* never stops
LiveMax == 1
\* the largest ring that faces that producer
LiveN == 1

SeqMod == 2 ^ SeqBits
MaxSeq == SeqMod - 1
SeqNums == 0 .. MaxSeq

\* The ring copies values and never inspects them, so the k-th push started
\* is given a value of its own: every mix-up of two pushes then shows.
ValueOfPush(k) == 100 + k
Values == {ValueOfPush(k) : k \in 1 .. MaxPush}
\* the values in the slots of a ring that has already run
OldValue(s) == 50 + s
\* a slot never written: MaybeUninit::uninit()
Uninit == 0
\* bytes of two different writes mixed by a copy that races a write
Torn == -1
\* the values of max a poll_up_to is given
Maxes == 0 .. MaxPush

VARIABLES
    \* SeqRing<T, N>
    N, next_seq, published_seq, slot_seq, slots, producer_taken, consumer_taken,
    \* live handles; acq names the producer()/consumer() call that panicked, until
    \* the next call or drop that succeeds
    producers, consumers, acq,
    \* the producer thread inside push_inner
    ppc, p_seq, p_value, push_ret,
    \* every push started, in order: the next_seq it found, the sequence it took
    \* and its value
    pushlog,
    \* Consumer
    last_seq, dropped_accum,
    \* the consumer thread inside an operation
    cpc, cop, max, newest, read, dropped, r_seq, r_v,
    \* hook invocations of the operation running or last finished
    hooked,
    \* what held when that operation was entered
    entry,
    \* what that operation returned
    cret

ringVars == <<N, next_seq, published_seq, slot_seq, slots, producer_taken, consumer_taken>>
handleVars == <<producers, consumers, acq>>
prodVars == <<ppc, p_seq, p_value, push_ret, pushlog>>
consVars == <<last_seq, dropped_accum>>
callVars == <<cpc, cop, max, newest, read, dropped, r_seq, r_v, hooked, entry, cret>>
vars == <<ringVars, handleVars, prodVars, consVars, callVars>>

(***************************************************************************)
(* u32 arithmetic, at width SeqBits.                                       *)
(***************************************************************************)
wrapping_add(a, b) == (a + b) % SeqMod
wrapping_sub(a, b) == (a - b + SeqMod) % SeqMod

\* usize arithmetic (read, dropped, dropped_accum): usize is twice as wide as
\* u32 (64 bits), narrowed in proportion.  A sum that does not fit wraps in a
\* build without overflow checks and panics in one with them.
UsizeBits == 2 * SeqBits
UsizeMod == 2 ^ UsizeBits
usize_add(a, b) == (a + b) % UsizeMod
usize_overflows(a, b) == a + b >= UsizeMod

\* SeqRing::idx_for
idx_for(seq) == wrapping_sub(seq, 1) % N

Slots == 0 .. (N - 1)

(***************************************************************************)
(* Ghost records.                                                          *)
(***************************************************************************)
\* total: the dropped values of the polls that have returned on this handle,
\* summed since the handle was made or reset_dropped was last called;
\* delivered: the read values of those polls, summed for as long as the
\* handle has called neither skip_to_latest nor reset_dropped
NotCounted == -1
NoRet ==
    [op |-> "none", max |-> 0, read |-> 0, dropped |-> 0, newest |-> 0, ok |-> FALSE,
     total |-> 0, delivered |-> 0]
\* entry: the cursor and the drop counter when the operation was entered;
\* whether the producer was outside push then and has started no push since;
\* and, when the operation before it was a skip_to_latest with the producer
\* idle from that call on, the newest sequence the skip found and dropped()
\* before the skip
NoSkip == <<>>
NoEntry == [last_seq |-> 0, dropped_accum |-> 0, quiet |-> TRUE, skip |-> NoSkip]

\* pushes started so far
npush == Len(pushlog)
\* the sequences pushes have taken, and the value pushed under a sequence
PushedSeqs == {pushlog[i].seq : i \in 1 .. Len(pushlog)}
ValueOf(s) == LET i == CHOOSE i \in 1 .. Len(pushlog) : pushlog[i].seq = s IN pushlog[i].value

(***************************************************************************)
(* SeqRing::new: counters and tags 0, slots uninitialised, no handle.      *)
(***************************************************************************)
InitCall ==
    /\ cpc = "idle" /\ cop = "none" /\ max = 0 /\ newest = 0 /\ read = 0
    /\ dropped = 0 /\ r_seq = 0 /\ r_v = Uninit /\ hooked = <<>>
    /\ entry = NoEntry /\ cret = NoRet

Init ==
    /\ N \in 1 .. MaxN
    /\ next_seq = 0 /\ published_seq = 0
    /\ slot_seq = [i \in Slots |-> 0]
    /\ slots = [i \in Slots |-> Uninit]
    /\ producer_taken = FALSE /\ consumer_taken = FALSE
    /\ producers = 0 /\ consumers = 0 /\ acq = "none"
    /\ ppc = "idle" /\ p_seq = 0 /\ p_value = Uninit /\ push_ret = 0
    /\ pushlog = <<>>
    /\ last_seq = 0 /\ dropped_accum = 0
    /\ InitCall

(***************************************************************************)
(* A fresh ring whose producer() and consumer() have been called.          *)
(***************************************************************************)
InitHeld ==
    /\ N \in 1 .. MaxN
    /\ next_seq = 0 /\ published_seq = 0
    /\ slot_seq = [i \in Slots |-> 0]
    /\ slots = [i \in Slots |-> Uninit]
    /\ producer_taken = TRUE /\ consumer_taken = TRUE
    /\ producers = 1 /\ consumers = 1 /\ acq = "none"
    /\ ppc = "idle" /\ p_seq = 0 /\ p_value = Uninit /\ push_ret = 0
    /\ pushlog = <<>>
    /\ last_seq = 0 /\ dropped_accum = 0
    /\ InitCall

(***************************************************************************)
(* A ring that has run for MaxSeq - 1 pushes, with both handles live and   *)
(* the consumer caught up: the last N pushes are in the slots.  pushlog    *)
(* records the pushes made from here on.                                   *)
(***************************************************************************)
WrapBase == MaxSeq - 1

InitWrap ==
    /\ N \in 1 .. MaxN
    /\ next_seq = WrapBase /\ published_seq = WrapBase
    /\ slot_seq = [i \in Slots |->
                     CHOOSE s \in (WrapBase - N + 1) .. WrapBase : idx_for(s) = i]
    /\ slots = [i \in Slots |-> OldValue(slot_seq[i])]
    /\ producer_taken = TRUE /\ consumer_taken = TRUE
    /\ producers = 1 /\ consumers = 1 /\ acq = "none"
    /\ ppc = "idle" /\ p_seq = 0 /\ p_value = Uninit /\ push_ret = WrapBase
    /\ pushlog = <<>>
    /\ last_seq = WrapBase /\ dropped_accum = 0
    /\ InitCall

(***************************************************************************)
(* SeqRing::producer, SeqRing::consumer and the handles' Drop.             *)
(* swap(true) returns the flag's old value and leaves it true; the assert  *)
(* panics when the old value was true, and no handle is made.              *)
(***************************************************************************)
\* faulty variant: no test of the flag
producer_unchecked ==
    /\ producer_taken' = TRUE
    /\ producers' = producers + 1
    /\ acq' = "none"
    /\ UNCHANGED <<N, next_seq, published_seq, slot_seq, slots, consumer_taken, consumers>>
    /\ UNCHANGED <<prodVars, consVars, callVars>>

\* faulty variant: a failing call releases the flag
producer_clears_on_panic ==
    /\ LET old == producer_taken IN
         IF old
           THEN /\ producer_taken' = FALSE
                /\ acq' = "producer_panic"
                /\ producers' = producers
           ELSE /\ producer_taken' = TRUE
                /\ acq' = "none"
                /\ producers' = producers + 1
    /\ UNCHANGED <<N, next_seq, published_seq, slot_seq, slots, consumer_taken, consumers>>
    /\ UNCHANGED <<prodVars, consVars, callVars>>

\* SeqRing::producer
producer ==
    /\ LET old == producer_taken IN
         /\ producer_taken' = TRUE
         /\ IF old
              THEN /\ acq' = "producer_panic"
                   /\ producers' = producers
              ELSE /\ acq' = "none"
                   /\ producers' = producers + 1
    /\ UNCHANGED <<N, next_seq, published_seq, slot_seq, slots, consumer_taken, consumers>>
    /\ UNCHANGED <<prodVars, consVars, callVars>>

\* a new Consumer starts at last_seq = 0, dropped_accum = 0
consumer ==
    /\ LET old == consumer_taken IN
         /\ consumer_taken' = TRUE
         /\ IF old
              THEN /\ acq' = "consumer_panic"
                   /\ consumers' = consumers
                   /\ UNCHANGED <<consVars, callVars>>
              ELSE /\ acq' = "none"
                   /\ consumers' = consumers + 1
                   /\ last_seq' = 0 /\ dropped_accum' = 0
                   /\ cop' = "none" /\ max' = 0 /\ newest' = 0 /\ read' = 0
                   /\ dropped' = 0 /\ r_seq' = 0 /\ r_v' = Uninit /\ hooked' = <<>>
                   /\ entry' = NoEntry /\ cret' = NoRet
                   /\ UNCHANGED cpc
    /\ UNCHANGED <<N, next_seq, published_seq, slot_seq, slots, producer_taken, producers>>
    /\ UNCHANGED prodVars

\* Drop for Producer: the handle is not borrowed by a running push
DropProducer ==
    /\ producers >= 1 /\ ppc = "idle"
    /\ producer_taken' = FALSE
    /\ producers' = producers - 1
    /\ acq' = "none"
    /\ UNCHANGED <<N, next_seq, published_seq, slot_seq, slots, consumer_taken, consumers>>
    /\ UNCHANGED <<prodVars, consVars, callVars>>

\* Drop for Consumer
DropConsumer ==
    /\ consumers >= 1 /\ cpc = "idle"
    /\ consumer_taken' = FALSE
    /\ consumers' = consumers - 1
    /\ acq' = "none"
    /\ UNCHANGED <<N, next_seq, published_seq, slot_seq, slots, producer_taken, producers>>
    /\ UNCHANGED <<prodVars, consVars, callVars>>

(***************************************************************************)
(* Producer::push = SeqRing::push_inner.                                   *)
(***************************************************************************)
\* faulty variant: 0 is not skipped
TakeSeq_keeps_zero(n) == [seq |-> wrapping_add(n, 1), next |-> wrapping_add(n, 1)]
\* the sequence a push takes from next_seq and the next_seq its fetch_add
\* leaves: fetch_add(1).wrapping_add(1); a push that gets 0 takes 1, and
\* next_seq holds 0 until the push stores 1 (push_skip_zero)
TakeSeq(n) ==
    LET seq == wrapping_add(n, 1) IN
      IF seq = 0 THEN [seq |-> 1, next |-> 0] ELSE [seq |-> seq, next |-> seq]

\* the log of pushes holds the first MaxPush pushes started
Logged(e) == IF npush < MaxPush THEN Append(pushlog, e) ELSE pushlog

push_begin(value) ==
    /\ producers >= 1 /\ ppc = "idle"
    /\ LET t == TakeSeq(next_seq) IN
         /\ next_seq' = t.next
         /\ p_seq' = t.seq
         /\ pushlog' = Logged([from |-> next_seq, seq |-> t.seq, value |-> value])
    /\ p_value' = value
    /\ ppc' = IF wrapping_add(next_seq, 1) = 0 THEN "skip_zero" ELSE "write"
    /\ entry' = [entry EXCEPT !.quiet = FALSE]
    /\ UNCHANGED <<N, published_seq, slot_seq, slots, producer_taken, consumer_taken>>
    /\ UNCHANGED <<handleVars, push_ret, consVars>>
    /\ UNCHANGED <<cpc, cop, max, newest, read, dropped, r_seq, r_v, hooked, cret>>

\* if seq == 0 { seq = 1; self.next_seq.store(1, Relaxed) }: the store, after
\* a fetch_add that returned the maximum and left next_seq = 0
push_skip_zero ==
    /\ ppc = "skip_zero"
    /\ next_seq' = 1
    /\ ppc' = "write"
    /\ UNCHANGED <<N, published_seq, slot_seq, slots, producer_taken, consumer_taken>>
    /\ UNCHANGED <<handleVars, p_seq, p_value, push_ret, pushlog, consVars, callVars>>

\* faulty variant: the sequence is published with the value write, before
\* the tag
push_write_publishes ==
    /\ ppc = "write"
    /\ slots' = [slots EXCEPT ![idx_for(p_seq)] = p_value]
    /\ published_seq' = p_seq
    /\ ppc' = "tag"
    /\ UNCHANGED <<N, next_seq, slot_seq, producer_taken, consumer_taken>>
    /\ UNCHANGED <<handleVars, p_seq, p_value, push_ret, pushlog, consVars, callVars>>

\* faulty variant: the write waits until the consumer has read the slot
push_write_waits ==
    /\ ppc = "write"
    /\ wrapping_sub(p_seq, last_seq) <= N
    /\ slots' = [slots EXCEPT ![idx_for(p_seq)] = p_value]
    /\ ppc' = "tag"
    /\ UNCHANGED <<N, next_seq, published_seq, slot_seq, producer_taken, consumer_taken>>
    /\ UNCHANGED <<handleVars, p_seq, p_value, push_ret, pushlog, consVars, callVars>>

\* (*self.slots[idx].get()).as_mut_ptr().write(value); until this step the
\* write is pending or under way (see ReadOutcomes)
push_write ==
    /\ ppc = "write"
    /\ slots' = [slots EXCEPT ![idx_for(p_seq)] = p_value]
    /\ ppc' = "tag"
    /\ UNCHANGED <<N, next_seq, published_seq, slot_seq, producer_taken, consumer_taken>>
    /\ UNCHANGED <<handleVars, p_seq, p_value, push_ret, pushlog, consVars, callVars>>

\* self.slot_seq[idx].store(seq, Release)
push_tag ==
    /\ ppc = "tag"
    /\ slot_seq' = [slot_seq EXCEPT ![idx_for(p_seq)] = p_seq]
    /\ ppc' = "publish"
    /\ UNCHANGED <<N, next_seq, published_seq, slots, producer_taken, consumer_taken>>
    /\ UNCHANGED <<handleVars, p_seq, p_value, push_ret, pushlog, consVars, callVars>>

\* self.published_seq.store(seq, Release); seq
push_publish ==
    /\ ppc = "publish"
    /\ published_seq' = p_seq
    /\ push_ret' = p_seq
    /\ ppc' = "idle"
    /\ UNCHANGED <<N, next_seq, slot_seq, slots, producer_taken, consumer_taken>>
    /\ UNCHANGED <<handleVars, p_seq, p_value, pushlog, consVars, callVars>>

(***************************************************************************)
(* Consumer operations.  Entering an operation records what held at entry; *)
(* returning records the result and clears the locals.                     *)
(***************************************************************************)
SkipBefore ==
    IF cret.op = "skip_to_latest" /\ entry.quiet /\ ppc = "idle"
      THEN <<cret.newest, entry.dropped_accum>>
      ELSE NoSkip
EntryNow ==
    [last_seq |-> last_seq, dropped_accum |-> dropped_accum, quiet |-> (ppc = "idle"),
     skip |-> SkipBefore]

CanCall == consumers >= 1 /\ cpc = "idle" /\ dropped_accum < MaxDropped

\* the part of entering an operation that does not depend on its outcome
Enter ==
    /\ entry' = EntryNow
    /\ UNCHANGED <<ringVars, handleVars, prodVars>>

ClearLocals ==
    /\ cpc' = "idle" /\ cop' = "none" /\ max' = 0 /\ newest' = 0 /\ read' = 0
    /\ dropped' = 0 /\ r_seq' = 0 /\ r_v' = Uninit

\* PollStats { read, dropped, newest }; poll_one maps it to read == 1
Stats(op, m, rd, dr, nw) ==
    [op |-> op, max |-> m, read |-> rd, dropped |-> dr, newest |-> nw, ok |-> (rd = 1),
     total |-> cret.total + dr,
     delivered |-> IF cret.delivered = NotCounted THEN NotCounted
                   ELSE cret.delivered + rd]

\* faulty variant: the counter is overwritten by the call's drops
PollFinish_forgets_accum(rd, dr, nw) ==
    /\ dropped_accum' = dr
    /\ cret' = Stats(cop, max, rd, dr, nw)
    /\ ClearLocals

\* a += that overflows in a build with overflow checks: the consumer thread
\* panics inside the call and takes no further step
Panicked ==
    /\ cpc' = "panicked"
    /\ UNCHANGED <<cop, max, newest, read, dropped, r_seq, r_v, dropped_accum, cret>>

\* self.dropped_accum += dropped; PollStats { read, dropped, newest }
PollFinish(rd, dr, nw) ==
    \/ /\ dropped_accum' = usize_add(dropped_accum, dr)
       /\ cret' = Stats(cop, max, rd, dr, nw)
       /\ ClearLocals
    \/ /\ usize_overflows(dropped_accum, dr)
       /\ Panicked

\* faulty variant: max == 0 reports the cursor as newest
PollEnter_zero_reports_cursor(op, m) ==
    /\ CanCall /\ Enter
    /\ hooked' = <<>>
    /\ IF m = 0
         THEN /\ cret' = Stats(op, m, 0, 0, last_seq)
              /\ ClearLocals
              /\ UNCHANGED <<consVars>>
         ELSE LET nw == published_seq IN
           IF nw = 0 \/ nw = last_seq
             THEN /\ cret' = Stats(op, m, 0, 0, nw)
                  /\ ClearLocals
                  /\ UNCHANGED <<consVars>>
             ELSE /\ cpc' = "loop" /\ cop' = op /\ max' = m
                  /\ newest' = nw /\ read' = 0 /\ dropped' = 0
                  /\ UNCHANGED <<consVars, cret, r_seq, r_v>>

\* poll_up_to lines 250-268: the two early returns, else enter the loop
PollEnter(op, m) ==
    /\ CanCall /\ Enter
    /\ hooked' = <<>>
    /\ IF m = 0
         THEN /\ cret' = Stats(op, m, 0, 0, published_seq)
              /\ ClearLocals
              /\ UNCHANGED <<consVars>>
         ELSE LET nw == published_seq IN
           IF nw = 0 \/ nw = last_seq
             THEN /\ cret' = Stats(op, m, 0, 0, nw)
                  /\ ClearLocals
                  /\ UNCHANGED <<consVars>>
             ELSE /\ cpc' = "loop" /\ cop' = op /\ max' = m
                  /\ newest' = nw /\ read' = 0 /\ dropped' = 0
                  /\ UNCHANGED <<consVars, cret, r_seq, r_v>>

poll_up_to(m) == PollEnter("poll_up_to", m)

\* faulty variant: poll_up_to(2, ..)
poll_one_takes_two == PollEnter("poll_one", 2)
\* poll_one: poll_up_to(1, ..), returns stats.read == 1
poll_one == PollEnter("poll_one", 1)

\* faulty variant: the jump counts the whole lag as dropped
Jump_drops_lag(nw, last) ==
    [last_seq |-> wrapping_sub(nw, N), drops |-> wrapping_sub(nw, last)]
\* faulty variant: the jump keeps only the newest item
Jump_to_newest(nw, last) ==
    [last_seq |-> wrapping_sub(nw, 1), drops |-> wrapping_sub(wrapping_sub(nw, 1), last)]
\* lines 276-284: the cursor and the drops of a jump when lag > N
Jump(nw, last) ==
    LET next == wrapping_add(last, 1)
        keep_from == wrapping_sub(nw, N - 1)
        jump_drops == wrapping_sub(keep_from, next)
    IN [last_seq |-> wrapping_sub(keep_from, 1), drops |-> jump_drops]

\* faulty variant: the loop runs until nothing remains
PollAgain_ignores_max(rd, dr) ==
    /\ cpc' = "loop" /\ read' = rd /\ dropped' = dr
    /\ UNCHANGED <<cop, max, newest, r_seq, r_v, dropped_accum, cret>>

\* faulty variant: the loop stops one delivery short of max
PollAgain_one_short(rd, dr) ==
    IF rd + 1 < max
      THEN /\ cpc' = "loop" /\ read' = rd /\ dropped' = dr
           /\ UNCHANGED <<cop, max, newest, r_seq, r_v, dropped_accum, cret>>
      ELSE PollFinish(rd, dr, newest)

\* the loop condition after the body ran: go round again, or return
PollAgain(rd, dr) ==
    IF rd < max
      THEN /\ cpc' = "loop" /\ read' = rd /\ dropped' = dr
           /\ UNCHANGED <<cop, max, newest, r_seq, r_v, dropped_accum, cret>>
      ELSE PollFinish(rd, dr, newest)

\* lines 270-286: one pass of the loop head, up to the call of read_seq_inner.
\* `while read < max` is tested where read changes: the loop is entered with
\* read = 0 < max, and PollAgain tests it after every pass that read an item.
poll_loop ==
    /\ cpc = "loop"
    /\ UNCHANGED <<ringVars, handleVars, prodVars, entry, hooked>>
    /\ LET nw == published_seq IN
           IF last_seq = nw
             THEN PollFinish(read, dropped, nw) /\ UNCHANGED last_seq
             ELSE LET lag == wrapping_sub(nw, last_seq) IN
               IF lag > N
                 THEN LET j == Jump(nw, last_seq) IN
                        \/ /\ last_seq' = j.last_seq
                           /\ dropped' = usize_add(dropped, j.drops)
                           /\ newest' = nw
                           /\ UNCHANGED <<cpc, cop, max, read, r_seq, r_v, dropped_accum,
                                          cret>>
                        \/ /\ usize_overflows(dropped, j.drops)
                           /\ cpc' = "panicked" /\ newest' = nw
                           /\ UNCHANGED <<cop, max, read, dropped, r_seq, r_v, consVars,
                                          cret>>
                 ELSE /\ r_seq' = wrapping_add(last_seq, 1)
                      /\ newest' = nw
                      /\ cpc' = "s1"
                      /\ UNCHANGED <<cop, max, read, dropped, r_v, consVars, cret>>

\* faulty variant: latest consumes the item it delivered
LatestReturn_advances(hit) ==
    /\ cret' = [NoRet EXCEPT !.op = "latest", !.ok = hit, !.newest = newest,
                             !.total = cret.total, !.delivered = cret.delivered]
    /\ hooked' = IF hit THEN Append(hooked, <<r_seq, r_v>>) ELSE hooked
    /\ ClearLocals
    /\ last_seq' = IF hit THEN r_seq ELSE last_seq
    /\ UNCHANGED dropped_accum

\* latest returns whether it delivered
LatestReturn(hit) ==
    /\ cret' = [NoRet EXCEPT !.op = "latest", !.ok = hit, !.newest = newest,
                             !.total = cret.total, !.delivered = cret.delivered]
    /\ hooked' = IF hit THEN Append(hooked, <<r_seq, r_v>>) ELSE hooked
    /\ ClearLocals
    /\ UNCHANGED consVars

\* faulty variant: a miss moves the cursor and is not counted
PollItem_miss_uncounted(hit) ==
    /\ last_seq' = r_seq
    /\ hooked' = IF hit THEN Append(hooked, <<r_seq, r_v>>) ELSE hooked
    /\ IF hit THEN PollAgain(usize_add(read, 1), dropped)
              ELSE PollAgain(read, dropped)

\* lines 288-298: Some(v) => hook, cursor, read; None => cursor, dropped
PollItem(hit) ==
    /\ last_seq' = r_seq
    /\ hooked' = IF hit THEN Append(hooked, <<r_seq, r_v>>) ELSE hooked
    /\ IF hit THEN PollAgain(usize_add(read, 1), dropped)
              ELSE \/ PollAgain(read, usize_add(dropped, 1))
                   \/ usize_overflows(dropped, 1) /\ Panicked

ReadReturn(hit) == IF cop = "latest" THEN LatestReturn(hit) ELSE PollItem(hit)

(***************************************************************************)
(* SeqRing::read_seq_inner(seq), seq in r_seq: tag, copy, tag again.       *)
(***************************************************************************)
read_s1 ==
    /\ cpc = "s1"
    /\ LET s1 == slot_seq[idx_for(r_seq)] IN
         IF s1 # r_seq
           THEN ReadReturn(FALSE)
           ELSE /\ cpc' = "copy"
                /\ UNCHANGED <<cop, max, newest, read, dropped, r_seq, r_v, hooked, cret>>
                /\ UNCHANGED consVars
    /\ UNCHANGED <<ringVars, handleVars, prodVars, entry>>

\* what assume_init_read() can return for slot i: the slot's value; any bits
\* when the slot was never written; and, when the producer's write of that
\* slot is pending or under way, the old bytes, the new, or a mix
SlotBits(i) == IF slots[i] = Uninit THEN Values \cup {Torn} ELSE {slots[i]}
ReadOutcomes(i) ==
    IF ppc = "write" /\ idx_for(p_seq) = i
      THEN SlotBits(i) \cup {p_value, Torn}
      ELSE SlotBits(i)

read_copy ==
    /\ cpc = "copy"
    /\ \E x \in ReadOutcomes(idx_for(r_seq)) : r_v' = x
    /\ cpc' = "s2"
    /\ UNCHANGED <<cop, max, newest, read, dropped, r_seq, hooked, cret>>
    /\ UNCHANGED <<ringVars, handleVars, prodVars, consVars, entry>>

\* faulty variant: no re-check of the tag after the copy
read_s2_unchecked ==
    /\ cpc = "s2"
    /\ ReadReturn(TRUE)
    /\ UNCHANGED <<ringVars, handleVars, prodVars, entry>>

read_s2 ==
    /\ cpc = "s2"
    /\ LET s2 == slot_seq[idx_for(r_seq)] IN ReadReturn(s2 = r_seq)
    /\ UNCHANGED <<ringVars, handleVars, prodVars, entry>>

(***************************************************************************)
(* Consumer::latest, skip_to_latest, dropped, reset_dropped.               *)
(***************************************************************************)
latest ==
    /\ CanCall /\ Enter
    /\ hooked' = <<>>
    /\ LET nw == published_seq IN
         IF nw = 0
           THEN /\ cret' = [NoRet EXCEPT !.op = "latest", !.total = cret.total,
                                     !.delivered = cret.delivered]
                /\ ClearLocals
           ELSE /\ cpc' = "s1" /\ cop' = "latest" /\ newest' = nw /\ r_seq' = nw
                /\ UNCHANGED <<max, read, dropped, r_v, cret>>
    /\ UNCHANGED consVars

\* faulty variant: the cursor is put on the newest item, not before it
SkipTarget_on_newest(nw, last) == IF nw # 0 THEN nw ELSE last
\* the cursor skip_to_latest leaves
SkipTarget(nw, last) == IF nw # 0 THEN wrapping_sub(nw, 1) ELSE last

skip_to_latest ==
    /\ CanCall /\ Enter
    /\ hooked' = <<>>
    /\ last_seq' = SkipTarget(published_seq, last_seq)
    /\ cret' = [NoRet EXCEPT !.op = "skip_to_latest", !.newest = published_seq,
                             !.total = cret.total, !.delivered = NotCounted]
    /\ ClearLocals
    /\ UNCHANGED dropped_accum

\* Consumer::dropped(&self): reads the handle's counter, changes nothing
dropped_get == dropped_accum

reset_dropped ==
    /\ CanCall /\ Enter
    /\ hooked' = <<>>
    /\ dropped_accum' = 0
    /\ cret' = [NoRet EXCEPT !.op = "reset_dropped", !.delivered = NotCounted]
    /\ ClearLocals
    /\ UNCHANGED last_seq

(***************************************************************************)
(* The next-state relation and the specifications.                         *)
(***************************************************************************)
\* From SeqRing::new the counter is at most the number of pushes started,
\* far from its maximum, so no push of Spec reaches push_skip_zero; the step
\* is taken in NextHeld and NextLive, whose rings reach the wrap.
Next ==
    \/ producer
    \/ consumer
    \/ DropProducer
    \/ DropConsumer
    \/ \E value \in {ValueOfPush(npush + 1)} : npush < MaxPush /\ push_begin(value)
    \/ push_write
    \/ push_tag
    \/ push_publish
    \/ \E m \in Maxes : poll_up_to(m)
    \/ poll_one
    \/ poll_loop
    \/ read_s1
    \/ read_copy
    \/ read_s2
    \/ latest
    \/ skip_to_latest
    \/ reset_dropped

\* the operations of the two threads, the handles held throughout
NextHeld ==
    \/ \E value \in {ValueOfPush(npush + 1)} : npush < MaxPush /\ push_begin(value)
    \/ push_skip_zero
    \/ push_write
    \/ push_tag
    \/ push_publish
    \/ \E m \in Maxes : poll_up_to(m)
    \/ poll_one
    \/ poll_loop
    \/ read_s1
    \/ read_copy
    \/ read_s2
    \/ latest
    \/ skip_to_latest
    \/ reset_dropped

\* a fresh ring: handles are taken and dropped at any time
Spec == Init /\ [][Next]_vars

\* both handles held: a fresh ring, or one whose sequence counter is about
\* to wrap
SpecWrap == (InitHeld \/ InitWrap) /\ [][NextHeld]_vars

\* a producer that pushes without end and a consumer that makes one call of
\* poll_up_to, at any moment; the steps of the consumer thread inside the
\* call are those of a running thread, which is not held up forever
LiveMaxes == 1 .. LiveMax
FirstCall == cret.op = "none"

NextLive ==
    \/ \E value \in {ValueOfPush(MaxPush)} : push_begin(value)
    \/ push_skip_zero
    \/ push_write
    \/ push_tag
    \/ push_publish
    \/ \E m \in LiveMaxes : FirstCall /\ poll_up_to(m)
    \/ poll_loop
    \/ read_s1
    \/ read_copy
    \/ read_s2

ConsumerStep == poll_loop \/ read_s1 \/ read_copy \/ read_s2

\* that ring is fresh, with both handles held
InitLive == InitHeld /\ N \in 1 .. LiveN

SpecLive == InitLive /\ [][NextLive]_vars /\ WF_vars(ConsumerStep)

(***************************************************************************)
(* Claims.                                                                 *)
(***************************************************************************)
IsPoll(op) == op \in {"poll_one", "poll_up_to"}
\* a poll is running, or was the last operation to return
InPoll == cpc \notin {"idle", "panicked"} /\ IsPoll(cop)
AfterPoll == cpc = "idle" /\ IsPoll(cret.op)
Min(a, b) == IF a < b THEN a ELSE b

\* C1: every (sequence, value) pair handed to a hook is a pair some push
\* produced: the sequence was taken by a push and the value is the value
\* that push wrote, also while a push runs concurrently.
C1_HookedPairsWerePushed ==
    \A i \in 1 .. Len(hooked) :
        /\ hooked[i][1] \in PushedSeqs
        /\ hooked[i][2] = ValueOf(hooked[i][1])

C2_Case ==
    /\ cpc = "idle" /\ cret.op = "poll_up_to"
    /\ entry.quiet /\ entry.last_seq = 0 /\ entry.dropped_accum = 0
    /\ cret.max = npush

\* C2: after n pushes into a fresh ring with no polling in between, one
\* poll_up_to(n, hook) on a fresh consumer invokes the hook min(n, N) times
\* with the sequences n - min(n, N) + 1 .. n in increasing order, each with
\* the value pushed under it, and returns read = min(n, N),
\* dropped = n - min(n, N), newest = n.
C2_DrainAfterPushes ==
    C2_Case =>
        LET n == npush
            k == Min(n, N)
        IN /\ hooked = [i \in 1 .. k |-> <<n - k + i, ValueOfPush(n - k + i)>>]
           /\ cret.read = k
           /\ cret.dropped = n - k
           /\ cret.newest = n

C2_Witness == C2_Case /\ npush > N /\ cret.read = N /\ N > 1

\* C3: at most one Producer handle and at most one Consumer handle is live,
\* and producer_taken (consumer_taken) is true exactly while one is live.
C3_HandlesExclusive ==
    /\ producers <= 1 /\ consumers <= 1
    /\ producer_taken <=> (producers = 1)
    /\ consumer_taken <=> (consumers = 1)

C3_Witness == producers = 1 /\ consumers = 1 /\ acq = "consumer_panic" /\ cpc # "idle"

C4_FailedStep(kind) == acq' = kind /\ acq # kind

C4_Step ==
    /\ C4_FailedStep("producer_panic") =>
          /\ producers = 1 /\ producer_taken
          /\ UNCHANGED <<ringVars, producers, consumers, prodVars, consVars, callVars>>
    /\ C4_FailedStep("consumer_panic") =>
          /\ consumers = 1 /\ consumer_taken
          /\ UNCHANGED <<ringVars, producers, consumers, prodVars, consVars, callVars>>
    /\ (producers' = 0 /\ producers = 1) => ~producer_taken'
    /\ (consumers' = 0 /\ consumers = 1) => ~consumer_taken'

\* C4: producer() (consumer()) called while a handle of that kind is live
\* fails and changes nothing of the ring, the flags, the handles or the
\* threads using them; a call fails only while such a handle is live, so
\* the call after the handle's drop succeeds.
C4_FailedAcquireChangesNothing == [][C4_Step]_vars

C4_Witness == acq = "producer_panic" /\ producers = 1 /\ ppc = "tag"

C5_After(s) == IF s = MaxSeq THEN 1 ELSE s + 1

\* C5: a push never takes sequence 0 and never tags a slot with 0; on a
\* fresh ring the k-th push returns k; each push takes the sequence after
\* the one before it, and the push that finds next_seq at its maximum takes
\* 1 and leaves next_seq = 1, so that the following push takes 2.
C5_PushSequences ==
    /\ \A i \in 1 .. Len(pushlog) :
          /\ pushlog[i].seq # 0
          /\ pushlog[i].seq = C5_After(pushlog[i].from)
          /\ i > 1 => pushlog[i].from = pushlog[i - 1].seq
    /\ (Len(pushlog) > 0 /\ pushlog[1].from = 0) =>
          \A k \in 1 .. Len(pushlog) : pushlog[k].seq = k
    /\ (Len(pushlog) > 0 /\ ppc # "skip_zero") => next_seq = pushlog[Len(pushlog)].seq
    /\ ppc = "skip_zero" => (next_seq = 0 /\ p_seq = 1)
    /\ (Len(pushlog) > 0 /\ ppc = "idle") => push_ret = pushlog[Len(pushlog)].seq
    /\ push_ret # 0 \/ Len(pushlog) = 0 \/ (Len(pushlog) = 1 /\ ppc # "idle")
    /\ \A i \in Slots :
          (slots[i] # Uninit /\ ~(ppc = "tag" /\ idx_for(p_seq) = i)) => slot_seq[i] # 0

C5_Witness ==
    /\ Len(pushlog) >= 2 /\ ppc = "idle"
    /\ pushlog[Len(pushlog) - 1].from = MaxSeq
    /\ pushlog[Len(pushlog) - 1].seq = 1
    /\ push_ret = 2

C6_Order ==
    /\ ppc = "skip_zero" => ppc' \in {"skip_zero", "write"}
    /\ ppc = "write" => ppc' \in {"write", "tag"}
    /\ ppc = "tag" => ppc' \in {"tag", "publish"}
    /\ ppc = "publish" => ppc' \in {"publish", "idle"}
    /\ (ppc = "publish" /\ ppc' = "idle") => (push_ret' = p_seq /\ push_ret' # 0)
    /\ ppc # "idle" => (p_seq' = p_seq /\ p_value' = p_value)

\* C6: a started push is enabled at each of its steps whatever the
\* consumer is doing, takes its steps in the fixed order (the store of 1
\* after a wrap,) write, tag, publish, and returns the sequence it took.
C6_ProducerNeverWaits ==
    /\ [](/\ ppc = "skip_zero" => ENABLED push_skip_zero
          /\ ppc = "write" => ENABLED push_write
          /\ ppc = "tag" => ENABLED push_tag
          /\ ppc = "publish" => ENABLED push_publish)
    /\ [][C6_Order]_vars

C6_Witness ==
    /\ ppc = "write" /\ cpc = "copy" /\ idx_for(p_seq) = idx_for(r_seq)
    /\ wrapping_sub(p_seq, last_seq) > N

\* C7: no consumer operation moves the cursor last_seq backwards (a new
\* handle, which starts at 0, is not an operation of the old one).
C7_CursorNeverBack ==
    [][(consumers' = consumers /\ consumers = 1) => last_seq' >= last_seq]_vars

C8_Hooked(m, rd) ==
    /\ Len(hooked) <= m
    /\ rd = Len(hooked)
    /\ \A i \in 1 .. Len(hooked) :
          /\ hooked[i][1] > entry.last_seq
          /\ i > 1 => hooked[i][1] > hooked[i - 1][1]

\* C8: within one poll_up_to(max, hook) or poll_one call, also with pushes
\* running, the hook is invoked at most max times, read is the number of
\* invocations, and the delivered sequences are above the cursor at entry
\* and strictly increasing.
C8_PollDeliversInOrder ==
    /\ InPoll => C8_Hooked(max, read)
    /\ AfterPoll => C8_Hooked(cret.max, cret.read)

C8_Witness ==
    /\ AfterPoll /\ cret.op = "poll_up_to" /\ cret.max = 2 /\ cret.read = 2
    /\ ~entry.quiet /\ cret.dropped > 0

\* C9: poll_one delivers at most one item and returns true exactly when
\* its hook ran once; with nothing published, or the cursor at the newest
\* published sequence, it returns false without the hook; after k <= N
\* pushes into a fresh ring and no push since, a poll_one entered with the
\* cursor at j - 1 < k delivers sequence j with its value, moves the cursor
\* to j and leaves dropped() as it was, so k successive calls deliver 1..k
\* and the next returns false.
C9_PollOne ==
    (cpc = "idle" /\ cret.op = "poll_one") =>
        /\ Len(hooked) <= 1
        /\ cret.ok <=> (Len(hooked) = 1)
        /\ (entry.quiet /\ (published_seq = 0 \/ entry.last_seq = published_seq)) =>
              (~cret.ok /\ hooked = <<>> /\ last_seq = entry.last_seq)
        /\ (entry.quiet /\ npush <= N /\ entry.last_seq < npush) =>
              /\ cret.ok
              /\ hooked = << <<entry.last_seq + 1, ValueOfPush(entry.last_seq + 1)>> >>
              /\ last_seq = entry.last_seq + 1
              /\ cret.dropped = 0
              /\ dropped_get = entry.dropped_accum

C9_Witness ==
    /\ cpc = "idle" /\ cret.op = "poll_one" /\ entry.quiet
    /\ N = 2 /\ npush = 2 /\ entry.last_seq = 1 /\ cret.ok /\ dropped_get = 0

C10_IsZeroPoll ==
    /\ cpc = "idle" /\ cpc' = "idle" /\ ppc' = ppc
    /\ UNCHANGED handleVars
    /\ cret'.op = "poll_up_to" /\ cret'.max = 0

C10_Step ==
    C10_IsZeroPoll =>
        /\ hooked' = <<>>
        /\ cret'.read = 0 /\ cret'.dropped = 0
        /\ cret'.newest = published_seq
        /\ UNCHANGED <<last_seq, dropped_accum, ringVars>>

\* C10: poll_up_to(0, hook) never invokes the hook, returns read = 0,
\* dropped = 0 and newest = the ring's published_seq, and changes neither
\* the cursor, nor dropped(), nor the ring.
C10_ZeroPollOnlyReportsNewest == [][C10_Step]_vars

C10_Witness ==
    /\ cpc = "idle" /\ cret.op = "poll_up_to" /\ cret.max = 0
    /\ cret.newest >= 2 /\ last_seq < cret.newest /\ ppc = "tag"

C11_InLatest == cpc # "idle" /\ cop = "latest"
C11_AfterLatest == cpc = "idle" /\ cret.op = "latest"

\* C11: latest that finds nothing published returns false without the
\* hook; after at least one push and with no push running during the call
\* it returns true and its hook gets the newest published sequence with the
\* value pushed last; during and after latest the cursor and dropped() are
\* what they were at entry, so the poll_one that follows starts from the
\* state it would have started from without the call.
C11_LatestReadsNewestOnly ==
    /\ (C11_InLatest \/ C11_AfterLatest) =>
          /\ last_seq = entry.last_seq
          /\ dropped_get = entry.dropped_accum
    /\ C11_AfterLatest =>
          /\ cret.newest = 0 => (~cret.ok /\ hooked = <<>>)
          /\ cret.ok <=> (Len(hooked) = 1)
          /\ (entry.quiet /\ npush >= 1) =>
                /\ cret.ok
                /\ cret.newest = published_seq
                /\ published_seq = pushlog[npush].seq
                /\ hooked = << <<published_seq, ValueOfPush(npush)>> >>

C11_Witness ==
    /\ C11_AfterLatest /\ entry.quiet /\ cret.ok
    /\ N = 2 /\ npush = 3 /\ last_seq = 1
    /\ hooked = << <<3, ValueOfPush(3)>> >>

C12_Case ==
    /\ cpc = "idle" /\ cret.op = "poll_one"
    /\ entry.skip # NoSkip /\ entry.quiet
    /\ entry.skip[1] # 0

\* C12: with at least one item published, whatever the cursor and the
\* backlog, skip_to_latest followed by poll_one with the producer idle from
\* the skip to the return makes poll_one return true and deliver exactly
\* the item whose sequence was newest at the skip, and dropped() is then
\* what it was before the skip.
C12_SkipThenPollOne ==
    C12_Case =>
        /\ cret.ok
        /\ hooked = << <<entry.skip[1], ValueOf(entry.skip[1])>> >>
        /\ entry.skip[1] = pushlog[npush].seq
        /\ cret.dropped = 0
        /\ dropped_get = entry.skip[2]

\* backlog larger than N at the skip, and a drop counted before it
C12_Witness ==
    /\ C12_Case /\ N = 1 /\ entry.skip = <<3, 1>> /\ cret.ok

\* the cursor already at the newest item when skip is called
C12_WitnessCaughtUp ==
    /\ C12_Case /\ N = 2 /\ entry.skip[1] = 2 /\ npush = 2 /\ cret.ok
    /\ entry.last_seq = 1 /\ last_seq = 2

\* C13: dropped() is the sum of the dropped values returned by the polls
\* made on the handle since it was created or reset_dropped was last
\* called, whatever poll_one, poll_up_to, latest, skip_to_latest and
\* reset_dropped calls were made; reset_dropped leaves dropped() = 0 and
\* the cursor where it was.
C13_DroppedIsSumOfPolls ==
    /\ dropped_get = cret.total
    /\ (cpc = "idle" /\ cret.op = "reset_dropped") =>
          (dropped_get = 0 /\ last_seq = entry.last_seq)
    /\ (cpc = "idle" /\ cret.op \in {"latest", "skip_to_latest"}) =>
          dropped_get = entry.dropped_accum

\* a second poll with drops, after a poll that counted one
C13_Witness ==
    /\ cpc = "idle" /\ IsPoll(cret.op)
    /\ entry.dropped_accum = 1 /\ cret.dropped = 1 /\ dropped_get = 2

\* a poll after a reset that cleared a count
C13_WitnessReset ==
    /\ cpc = "idle" /\ cret.op = "reset_dropped" /\ entry.dropped_accum = 2
    /\ dropped_get = 0 /\ last_seq < published_seq

\* C14: every call of poll_up_to comes to an end after finitely many steps
\* of the consumer, also while the producer pushes without end: a poll that
\* is running leads to the consumer being outside the call, returned (or,
\* in a build with overflow checks, panicked on an overflow of its counts).
C14_PollReturns == InPoll ~> (cpc \in {"idle", "panicked"})

C15_PushSlot == idx_for(p_seq)

\* C15: published_seq becomes s only after the tag of slot (s - 1) mod N
\* became s, and the tag only after the value was written there: a push
\* about to tag has written its value, a push about to publish has also
\* set the tag, and published_seq is the sequence of a push only from its
\* last step on.  Every slot tag is 0 or a sequence whose slot this is;
\* with no push in progress and published_seq = s # 0, slot (s - 1) mod N
\* has tag s and holds the value pushed with s.
C15_PublicationOrder ==
    /\ ppc \in {"tag", "publish"} => slots[C15_PushSlot] = p_value
    /\ ppc = "publish" => slot_seq[C15_PushSlot] = p_seq
    /\ ppc # "idle" => published_seq # p_seq
    /\ \A i \in Slots : slot_seq[i] = 0 \/ (slot_seq[i] - 1) % N = i
    /\ (ppc = "idle" /\ published_seq # 0) =>
          /\ slot_seq[(published_seq - 1) % N] = published_seq
          /\ slots[(published_seq - 1) % N] = ValueOf(published_seq)

C15_Witness ==
    /\ ppc = "idle" /\ N = 2 /\ published_seq = 3
    /\ slot_seq = [i \in Slots |-> IF i = 0 THEN 3 ELSE 2]
    /\ slots[0] = ValueOfPush(3)

\* a pass of the loop head of a poll: the consumer is at the loop and moves
C16_IsPass == cpc = "loop" /\ (cpc' # cpc \/ last_seq' # last_seq)

C16_Step ==
    C16_IsPass =>
        LET nw == published_seq
            lag == wrapping_sub(nw, last_seq)
        IN /\ lag > N =>
                 /\ last_seq' = wrapping_sub(nw, N)
                 /\ wrapping_add(last_seq', 1) = wrapping_sub(nw, N - 1)
                 /\ dropped' = dropped + (lag - N)
                 /\ hooked' = hooked /\ read' = read
                 /\ cpc' = "loop"
           /\ (0 < lag /\ lag <= N) =>
                 /\ last_seq' = last_seq /\ dropped' = dropped
                 /\ hooked' = hooked /\ read' = read
                 /\ cpc' = "s1" /\ r_seq' = wrapping_add(last_seq, 1)

\* C16: a pass of the poll loop that finds lag = newest - last_seq > N moves
\* the cursor to newest - N, so that newest - (N - 1) is read next, adds
\* exactly lag - N to the call's dropped and invokes no hook; a pass that
\* finds 0 < lag <= N leaves cursor and dropped and goes on to read
\* last_seq + 1.
C16_JumpWhenLagExceedsN == [][C16_Step]_vars

C16_Witness ==
    /\ cpc = "loop" /\ N = 2 /\ entry.last_seq = 0 /\ newest = 3
    /\ last_seq = 1 /\ dropped = 1 /\ read = 0 /\ hooked = <<>>

\* a jump over the wrap of the sequence counter
C16_WitnessWrap ==
    /\ cpc = "loop" /\ N = 2 /\ entry.last_seq = WrapBase /\ newest = 2
    /\ last_seq = 0 /\ dropped = 2 /\ read = 0 /\ hooked = <<>>

\* the consumer takes the tag check before the copy, or the one after it
C17_IsCheck == cpc \in {"s1", "s2"} /\ cpc' # cpc

C17_PollMiss ==
    /\ hooked' = hooked
    /\ dropped' = dropped + 1 /\ read' = read
    /\ last_seq' = r_seq /\ last_seq' = wrapping_add(last_seq, 1)
    /\ dropped_accum' = dropped_accum
    /\ cpc' = "loop"

C17_LatestMiss ==
    /\ hooked' = hooked /\ hooked = <<>>
    /\ cpc' = "idle" /\ cret'.op = "latest" /\ ~cret'.ok
    /\ last_seq' = last_seq /\ dropped_accum' = dropped_accum

C17_Step ==
    (C17_IsCheck /\ slot_seq[idx_for(r_seq)] # r_seq) =>
        IF cop = "latest" THEN C17_LatestMiss ELSE C17_PollMiss

\* C17: a read of sequence s whose slot tag differs from s at the check
\* before the copy or at the check after it is a miss.  In a poll a miss
\* invokes no hook, adds exactly 1 to the call's dropped, moves the cursor
\* to s, one past where it was, and the call goes on; in latest it invokes
\* no hook, returns false and leaves cursor and dropped().
C17_MissIsCountedNotRaised == [][C17_Step]_vars

\* a poll that missed at the check after the copy
C17_Witness ==
    /\ cpc = "loop" /\ IsPoll(cop) /\ hooked = <<>> /\ read = 0
    /\ r_v # Uninit /\ last_seq = r_seq /\ dropped = 1
    /\ entry.last_seq = last_seq - 1

\* a latest that missed at the check after the copy
C17_WitnessLatest ==
    /\ C11_AfterLatest /\ ~cret.ok /\ cret.newest # 0
    /\ slot_seq[idx_for(cret.newest)] # cret.newest /\ ppc = "publish"

\* the local newest of a running poll changes only by a load of
\* published_seq, and is cleared when the call returns
C18_Loads == (InPoll' /\ newest' # newest) => newest' = published_seq

\* a poll returns: from the loop, or at once from its entry
C18_IsReturn ==
    /\ cpc' = "idle" /\ IsPoll(cret'.op)
    /\ InPoll \/ (cpc = "idle" /\ ppc' = ppc /\ UNCHANGED handleVars)

\* it returns the published_seq it loads in its last step, or the one it
\* loaded at the head of the pass that made the last delivery
C18_Returns ==
    C18_IsReturn =>
        \/ cret'.newest = published_seq
        \/ InPoll /\ newest # 0 /\ cret'.newest = newest

\* C18: a poll returns only with max deliveries made or nothing left: on
\* return read = max or the cursor is the returned newest; and the
\* returned newest is a value published_seq had during the call, loaded by
\* a step of the call.
C18_StopsAtMaxOrNewest ==
    /\ [](/\ AfterPoll => (cret.read = cret.max \/ last_seq = cret.newest)
          /\ cpc = "idle" => newest = 0
          /\ InPoll => newest # 0)
    /\ [][C18_Loads /\ C18_Returns]_vars

\* returned short of max, with drops, and the producer already further on
C18_Witness ==
    /\ AfterPoll /\ cret.op = "poll_up_to" /\ cret.max = 2 /\ cret.read = 1
    /\ cret.dropped = 1 /\ last_seq = cret.newest /\ cret.newest < published_seq

\* stopped by max with items left
C18_WitnessMax ==
    /\ AfterPoll /\ cret.op = "poll_up_to" /\ cret.max = 1 /\ cret.read = 1
    /\ last_seq < cret.newest /\ N = 2

\* pushes that have published
C19_Published == IF ppc = "idle" THEN npush ELSE npush - 1

\* C19: in every poll, with pushes running or not, the cursor's advance
\* since entry is read + dropped, at every moment of the call and on
\* return; so for a handle that has called neither skip_to_latest nor
\* reset_dropped and whose cursor is at published_seq, the items its polls
\* delivered plus dropped() is the number of pushes published.
C19_AdvanceIsReadPlusDropped ==
    /\ InPoll => last_seq - entry.last_seq = read + dropped
    /\ AfterPoll =>
          /\ last_seq - entry.last_seq = cret.read + cret.dropped
          /\ cret.read = Len(hooked)
    /\ (cpc = "idle" /\ consumers = 1 /\ cret.delivered # NotCounted
          /\ last_seq = published_seq) =>
          cret.delivered + dropped_get = C19_Published

\* a second poll, with a miss, that catches up with a producer inside push
C19_Witness ==
    /\ AfterPoll /\ cret.delivered = 1 /\ dropped_get = 1 /\ cret.dropped = 1
    /\ entry.last_seq = 1 /\ last_seq = published_seq /\ ppc # "idle"

\* the cursor the behaviour started with, the number of pushes the cursor
\* at entry had behind it, and the pushes that were waiting at entry
C20_StartCursor == IF npush = 0 THEN entry.last_seq ELSE pushlog[1].from
C20_Behind ==
    IF entry.last_seq = C20_StartCursor THEN 0
    ELSE CHOOSE k \in 1 .. npush : pushlog[k].seq = entry.last_seq
C20_Waiting == npush - C20_Behind

\* a poll that returned, entered with the producer idle and no push since,
\* on a handle that never skipped, reset or was told of a drop, with the
\* cursor on the start or on a pushed sequence and at most w pushes waiting
C20_Polled(w) ==
    /\ AfterPoll /\ entry.quiet
    /\ cret.delivered # NotCounted /\ entry.dropped_accum = 0
    /\ entry.last_seq \in {C20_StartCursor} \cup PushedSeqs
    /\ C20_Waiting <= w

C20_Delivered ==
    /\ Len(hooked) = Min(C20_Waiting, cret.max)
    /\ \A i \in 1 .. Len(hooked) :
          /\ hooked[i][1] = pushlog[C20_Behind + i].seq
          /\ hooked[i][2] = pushlog[C20_Behind + i].value
          /\ hooked[i][1] # 0

\* C20: over the wrap of the sequence counter as on a fresh ring, a
\* consumer that polls after every push, and so never has more than N
\* pushes waiting, gets every pushed item once, in push order, never with
\* sequence 0, and is told of no drop.
C20_WrapLikeFresh == C20_Polled(1) => (C20_Delivered /\ cret.dropped = 0)

\* the deliveries alone, for a consumer that polls after every push
C20_WrapDeliveries == C20_Polled(1) => C20_Delivered

\* the same for a consumer that lets up to N pushes wait
C20_WrapWithinN == C20_Polled(N) => (C20_Delivered /\ cret.dropped = 0)

====
